---- MODULE Spec2Model ----
(***************************************************************************)
(* Model of UWheeledVehicleMovementComponentNW                             *)
(* (Carla/Vehicle/WheeledVehicleMovementComponentNW.cpp): the constructor  *)
(* that seeds the drivetrain configuration from the PhysX default blocks,  *)
(* the editor pass PostEditChangeProperty, and the translators            *)
(* GetVehicleEngineSetup / GetVehicleDifferentialNWSetup.                  *)
(*                                                                         *)
(* A float is modelled as an exact fraction [n, d] with d > 0 in lowest    *)
(* terms; d = 0 encodes the non-finite results of a float division:        *)
(* [1,0] = +inf, [-1,0] = -inf, [0,0] = NaN.  Rounding of binary32 and the *)
(* sign of zero are not modelled.                                          *)
(***************************************************************************)
EXTENDS Integers, Sequences, FiniteSets, TLC

VARIABLES
    Def,                \* the simulator's compiled-in default blocks
    constructed,        \* whether the constructor has run on the config
    EngineSetup,        \* FVehicleNWEngineData
    TransmissionSetup,  \* FVehicleNWTransmissionData
    SteeringCurve,      \* keys of the steering FRichCurve
    DifferentialSetup,  \* TArray<FVehicleNWWheelDifferentialData>
    IdleBrakeInput,
    lastProperty,       \* name seen by the last PostEditChangeProperty, "" if none yet
    pre,                \* the configuration at entry to that call
    PxSetup,            \* PxVehicleEngineData output block
    PxBefore,           \* what that block held at entry to the last engine call
    PxPrev,             \* what the engine call before the last one produced
    divByZero,          \* whether the last engine call evaluated a division by zero
    calls,              \* engine translator calls so far
    PxDiff,             \* PxVehicleDifferentialNWData output block
    PxDiffBefore,       \* what that block held at entry to the last differential call
    PxDiffPrev,         \* what the differential call before the last one produced
    diffCalls,          \* differential translator calls so far
    PxGears             \* forward gear ratios handed to the simulator

vars == <<Def, constructed, EngineSetup, TransmissionSetup, SteeringCurve,
          DifferentialSetup, IdleBrakeInput, lastProperty, pre,
          PxSetup, PxBefore, PxPrev, divByZero, calls,
          PxDiff, PxDiffBefore, PxDiffPrev, diffCalls, PxGears>>

----------------------------------------------------------------------------
(* Bounds of the model *)

MaxGears == 2
MaxSteerKeys == 2
MaxTorqueKeys == 9
MaxDefKeys == 3
MaxCalls == 2
PxWheels == 5

(* Program constants *)

\* PxVehicleEngineData::eMAX_NB_ENGINE_TORQUE_CURVE_ENTRIES
eMAX_NB_ENGINE_TORQUE_CURVE_ENTRIES == 8
\* const int32 NbrWheels = 4
NbrWheels == 4
\* PxVehicleGearsData::eFIRST (eREVERSE = 0, eNEUTRAL = 1)
eFIRST == 2

----------------------------------------------------------------------------
(* float arithmetic *)

Abs(x) == IF x < 0 THEN -x ELSE x

RECURSIVE GCD(_, _)
GCD(a, b) == IF b = 0 THEN a ELSE GCD(b, a % b)

\* the fraction n/d, d # 0, in lowest terms with a positive denominator
F(n, d) ==
    LET g == GCD(Abs(n), Abs(d))
        s == IF d < 0 THEN -1 ELSE 1
    IN  [n |-> s * (n \div g), d |-> s * (d \div g)]

Zero == F(0, 1)
One == F(1, 1)
PosInf == [n |-> 1, d |-> 0]
NegInf == [n |-> -1, d |-> 0]
NaN == [n |-> 0, d |-> 0]

IsNaN(a) == a.n = 0 /\ a.d = 0
IsFinite(a) == a.d # 0

\* operator < of float: false when either side is NaN
FLt(a, b) ==
    IF IsNaN(a) \/ IsNaN(b) THEN FALSE
    ELSE IF a.d = 0 \/ b.d = 0
         THEN (IF a.d = 0 THEN a.n ELSE 0) < (IF b.d = 0 THEN b.n ELSE 0)
         ELSE a.n * b.d < b.n * a.d

\* operator <= of float
FLe(a, b) ==
    IF IsNaN(a) \/ IsNaN(b) THEN FALSE
    ELSE IF a.d = 0 \/ b.d = 0
         THEN (IF a.d = 0 THEN a.n ELSE 0) <= (IF b.d = 0 THEN b.n ELSE 0)
         ELSE a.n * b.d <= b.n * a.d

\* operator * of float, on finite operands
FMul(a, b) == F(a.n * b.n, a.d * b.d)

\* operator - of float, on finite operands
FSub(a, b) == F(a.n * b.d - b.n * a.d, a.d * b.d)

\* operator / of float, on finite operands: x/0 is +inf, -inf or NaN
FDiv(a, b) ==
    IF b.n = 0
    THEN (IF a.n > 0 THEN PosInf ELSE IF a.n < 0 THEN NegInf ELSE NaN)
    ELSE F(a.n * b.d, a.d * b.n)

FAbs(a) == [n |-> Abs(a.n), d |-> a.d]

\* FMath::Min(A, B): (A <= B) ? A : B
FMathMin(A, B) == IF FLe(A, B) THEN A ELSE B

\* FMath::Max(A, B): (A >= B) ? A : B
FMathMax(A, B) == IF FLe(B, A) THEN A ELSE B

\* FMath::Clamp(X, Min, Max): X < Min ? Min : X < Max ? X : Max
FMathClamp(X, Lo, Hi) == IF FLt(X, Lo) THEN Lo ELSE IF FLt(X, Hi) THEN X ELSE Hi

\* FMath::IsNearlyEqual(A, B, Tolerance): Abs(A - B) <= Tolerance
IsNearlyEqual(A, B, Tolerance) == FLe(FAbs(FSub(A, B)), Tolerance)

\* KINDA_SMALL_NUMBER, the default KeyTimeTolerance of UpdateOrAddKey
KeyTimeTolerance == F(1, 10000)

\* the float constant PI
PI == F(355, 113)

\* OmegaToRPM(Omega): Omega * 30 / PI
OmegaToRPM(Omega) == FDiv(FMul(Omega, F(30, 1)), PI)

\* RPMToOmega(RPM): RPM * PI / 30
RPMToOmega(RPM) == FDiv(FMul(RPM, PI), F(30, 1))

\* M2ToCm2(M2): M2 * 100 * 100
M2ToCm2(M2) == FMul(FMul(M2, F(100, 1)), F(100, 1))

----------------------------------------------------------------------------
(* FRichCurve: keys ordered by Time; two keys may hold the same Time.      *)
(* Only Time and Value of FRichCurveKey are modelled.                      *)

Key(t, v) == [Time |-> t, Value |-> v]

InsertAt(s, i, e) == SubSeq(s, 1, i - 1) \o <<e>> \o SubSeq(s, i, Len(s))

\* FRichCurve::AddKey: insert before the first key whose Time is not below InTime
AddKey(Keys, InTime, InValue) ==
    LET Below == {i \in 1..Len(Keys) : \A j \in 1..i : FLt(Keys[j].Time, InTime)}
    IN  InsertAt(Keys, Cardinality(Below) + 1, Key(InTime, InValue))

\* FRichCurve::UpdateOrAddKey, the scan from KeyIndex on: the first key whose
\* Time is nearly InTime takes the value; a key past InTime ends the scan
RECURSIVE UpdateOrAddKeyFrom(_, _, _, _)
UpdateOrAddKeyFrom(Keys, KeyIndex, InTime, InValue) ==
    IF KeyIndex > Len(Keys) THEN AddKey(Keys, InTime, InValue)
    ELSE IF IsNearlyEqual(Keys[KeyIndex].Time, InTime, KeyTimeTolerance)
         THEN [Keys EXCEPT ![KeyIndex].Value = InValue]
    ELSE IF FLt(InTime, Keys[KeyIndex].Time) THEN AddKey(Keys, InTime, InValue)
    ELSE UpdateOrAddKeyFrom(Keys, KeyIndex + 1, InTime, InValue)

UpdateOrAddKey(Keys, InTime, InValue) == UpdateOrAddKeyFrom(Keys, 1, InTime, InValue)

\* sequences over S of length at most n
RECURSIVE SeqsUpTo(_, _)
SeqsUpTo(S, n) ==
    IF n = 0 THEN {<<>>}
    ELSE LET shorter == SeqsUpTo(S, n - 1)
         IN  shorter \cup {Append(s, e) : s \in {t \in shorter : Len(t) = n - 1}, e \in S}

\* key sequences in the order a curve keeps them
IsCurve(Keys) == \A i \in 1..(Len(Keys) - 1) : FLe(Keys[i].Time, Keys[i + 1].Time)

----------------------------------------------------------------------------
(* The simulator's default blocks: PxVehicleEngineData, PxVehicleClutchData, *)
(* PxVehicleGearsData and PxVehicleAutoBoxData as default-constructed.       *)
(* Arrays are indexed from 0 as in the code.                                 *)

Pair(x, y) == [x |-> x, y |-> y]

PhysXDefaults ==
    [mMOI |-> F(1, 1),
     mPeakTorque |-> F(500, 1),
     mMaxOmega |-> F(600, 1),
     mDampingRateFullThrottle |-> F(15, 100),
     mDampingRateZeroThrottleClutchEngaged |-> F(2, 1),
     mDampingRateZeroThrottleClutchDisengaged |-> F(35, 100),
     mTorqueCurve |-> <<Pair(F(0, 1), F(8, 10)), Pair(F(33, 100), F(1, 1)),
                        Pair(F(1, 1), F(8, 10))>>,
     mStrength |-> F(10, 1),
     mSwitchTime |-> F(1, 2),
     mFinalRatio |-> F(4, 1),
     mNbRatios |-> 7,
     mRatios |-> [i \in 0..6 |->
                    CASE i = 0 -> F(-4, 1) [] i = 1 -> F(0, 1) [] i = 2 -> F(4, 1)
                      [] i = 3 -> F(2, 1) [] i = 4 -> F(3, 2) [] i = 5 -> F(11, 10)
                      [] OTHER -> F(1, 1)],
     mUpRatios |-> [i \in 0..6 |-> IF i = 1 THEN F(15, 100) ELSE F(65, 100)],
     mDownRatios |-> [i \in 0..6 |-> F(1, 2)],
     Latency |-> F(2, 1)]

----------------------------------------------------------------------------
(* The constructor *)

\* the torque-curve loop with the speed axis left normalized
RECURSIVE SeedTorqueCurveNormalizedX(_, _, _, _)
SeedTorqueCurveNormalizedX(TorqueCurveData, D, MaxRPM, KeyIdx) ==
    IF KeyIdx >= Len(D.mTorqueCurve) THEN TorqueCurveData
    ELSE LET Input == D.mTorqueCurve[KeyIdx + 1].x
             Output == FMul(D.mTorqueCurve[KeyIdx + 1].y, D.mPeakTorque)
         IN  SeedTorqueCurveNormalizedX(AddKey(TorqueCurveData, Input, Output),
                                        D, MaxRPM, KeyIdx + 1)

\* the torque-curve loop: one AddKey per default pair, from KeyIdx on
RECURSIVE SeedTorqueCurve(_, _, _, _)
SeedTorqueCurve(TorqueCurveData, D, MaxRPM, KeyIdx) ==
    IF KeyIdx >= Len(D.mTorqueCurve) THEN TorqueCurveData
    ELSE LET Input == FMul(D.mTorqueCurve[KeyIdx + 1].x, MaxRPM)
             Output == FMul(D.mTorqueCurve[KeyIdx + 1].y, D.mPeakTorque)
         IN  SeedTorqueCurve(AddKey(TorqueCurveData, Input, Output), D, MaxRPM, KeyIdx + 1)

\* the forward-gear loop: one entry per ratio index from eFIRST to mNbRatios - 1
SeedForwardGears(D) ==
    [g \in 1..(IF D.mNbRatios > eFIRST THEN D.mNbRatios - eFIRST ELSE 0) |->
        [DownRatio |-> D.mDownRatios[eFIRST + g - 1],
         UpRatio |-> D.mUpRatios[eFIRST + g - 1],
         Ratio |-> D.mRatios[eFIRST + g - 1]]]

\* the configuration the constructor leaves behind, given the default blocks D
Constructor(D) ==
    LET MaxRPM == OmegaToRPM(D.mMaxOmega)
    IN  [EngineSetup |->
            [MOI |-> D.mMOI,
             MaxRPM |-> MaxRPM,
             DampingRateFullThrottle |-> D.mDampingRateFullThrottle,
             DampingRateZeroThrottleClutchEngaged |-> D.mDampingRateZeroThrottleClutchEngaged,
             DampingRateZeroThrottleClutchDisengaged |-> D.mDampingRateZeroThrottleClutchDisengaged,
             TorqueCurve |-> SeedTorqueCurve(<<>>, D, MaxRPM, 0)],
         TransmissionSetup |->
            [ClutchStrength |-> D.mStrength,
             GearSwitchTime |-> D.mSwitchTime,
             ReverseGearRatio |-> D.mRatios[0],
             FinalRatio |-> D.mFinalRatio,
             NeutralGearUpRatio |-> D.mUpRatios[1],
             GearAutoBoxLatency |-> D.Latency,
             bUseGearAutoBox |-> TRUE,
             ForwardGears |-> SeedForwardGears(D)],
         SteeringCurve |->
            AddKey(AddKey(AddKey(AddKey(<<>>, F(0, 1), F(1, 1)), F(20, 1), F(9, 10)),
                          F(60, 1), F(8, 10)), F(120, 1), F(7, 10)),
         DifferentialSetup |-> [w \in 1..NbrWheels |-> [bDriven |-> TRUE]],
         IdleBrakeInput |-> F(10, 1)]

\* the members before the constructor body runs: empty containers
Unconstructed ==
    [EngineSetup |->
        [MOI |-> Zero, MaxRPM |-> Zero, DampingRateFullThrottle |-> Zero,
         DampingRateZeroThrottleClutchEngaged |-> Zero,
         DampingRateZeroThrottleClutchDisengaged |-> Zero, TorqueCurve |-> <<>>],
     TransmissionSetup |->
        [ClutchStrength |-> Zero, GearSwitchTime |-> Zero, ReverseGearRatio |-> Zero,
         FinalRatio |-> Zero, NeutralGearUpRatio |-> Zero, GearAutoBoxLatency |-> Zero,
         bUseGearAutoBox |-> FALSE, ForwardGears |-> <<>>],
     SteeringCurve |-> <<>>,
     DifferentialSetup |-> <<>>,
     IdleBrakeInput |-> Zero]

\* the configuration as one value
Config ==
    [EngineSetup |-> EngineSetup, TransmissionSetup |-> TransmissionSetup,
     SteeringCurve |-> SteeringCurve, DifferentialSetup |-> DifferentialSetup,
     IdleBrakeInput |-> IdleBrakeInput]

\* the configuration variables take the value c
SetConfig(c) ==
    /\ EngineSetup' = c.EngineSetup
    /\ TransmissionSetup' = c.TransmissionSetup
    /\ SteeringCurve' = c.SteeringCurve
    /\ DifferentialSetup' = c.DifferentialSetup
    /\ IdleBrakeInput' = c.IdleBrakeInput

----------------------------------------------------------------------------
(* PostEditChangeProperty *)

\* DownRatio clamped on the first gear only, the others left as they are
ClampDownRatiosFirstOnly(ForwardGears) ==
    [GearIdx \in 1..Len(ForwardGears) |->
        IF GearIdx = 1
        THEN [ForwardGears[GearIdx] EXCEPT
                !.DownRatio = FMathMin(ForwardGears[GearIdx].DownRatio,
                                       ForwardGears[GearIdx].UpRatio)]
        ELSE ForwardGears[GearIdx]]

\* branch DownRatio: every forward gear gets DownRatio = Min(DownRatio, UpRatio)
ClampDownRatios(ForwardGears) ==
    [GearIdx \in 1..Len(ForwardGears) |->
        [ForwardGears[GearIdx] EXCEPT
            !.DownRatio = FMathMin(ForwardGears[GearIdx].DownRatio,
                                   ForwardGears[GearIdx].UpRatio)]]

\* UpRatio taken as the smaller of the two thresholds
ClampUpRatiosMin(ForwardGears) ==
    [GearIdx \in 1..Len(ForwardGears) |->
        [ForwardGears[GearIdx] EXCEPT
            !.UpRatio = FMathMin(ForwardGears[GearIdx].DownRatio,
                                 ForwardGears[GearIdx].UpRatio)]]

\* branch UpRatio: every forward gear gets UpRatio = Max(DownRatio, UpRatio)
ClampUpRatios(ForwardGears) ==
    [GearIdx \in 1..Len(ForwardGears) |->
        [ForwardGears[GearIdx] EXCEPT
            !.UpRatio = FMathMax(ForwardGears[GearIdx].DownRatio,
                                 ForwardGears[GearIdx].UpRatio)]]

\* branch SteeringCurve: for each key of the copy SteerKeys, from KeyIdx on,
\* UpdateOrAddKey(Time, Clamp(Value, 0, 1)) on the live curve
RECURSIVE ClampSteeringCurve(_, _, _)
ClampSteeringCurve(Curve, SteerKeys, KeyIdx) ==
    IF KeyIdx >= Len(SteerKeys) THEN Curve
    ELSE LET NewValue == FMathClamp(SteerKeys[KeyIdx + 1].Value, Zero, One)
         IN  ClampSteeringCurve(UpdateOrAddKey(Curve, SteerKeys[KeyIdx + 1].Time, NewValue),
                                SteerKeys, KeyIdx + 1)

\* the configuration c after PostEditChangeProperty for PropertyName
\* ("None" is NAME_None, the event without a property); the call of
\* Super::PostEditChangeProperty writes none of the fields modelled here
PostEditChangeProperty(c, PropertyName) ==
    IF PropertyName = "DownRatio"
    THEN [c EXCEPT !.TransmissionSetup.ForwardGears = ClampDownRatios(@)]
    ELSE IF PropertyName = "UpRatio"
    THEN [c EXCEPT !.TransmissionSetup.ForwardGears = ClampUpRatios(@)]
    ELSE IF PropertyName = "SteeringCurve"
    THEN [c EXCEPT !.SteeringCurve = ClampSteeringCurve(@, @, 0)]
    ELSE c

----------------------------------------------------------------------------
(* The editor: a field is written, then PostEditChangeProperty is called   *)
(* with that field's name.                                                 *)

GearThresholds == {F(1, 2), F(9, 10)}
SteerTimes == {F(0, 1), F(20, 1)}
\* steering scales inside [0,1], at its upper end and above it
SteerValues == {F(1, 2), F(1, 1), F(3, 2)}

\* forward-gear lists of up to MaxGears entries, thresholds in any order
GearLists ==
    UNION {[1..n -> [DownRatio : GearThresholds, UpRatio : GearThresholds,
                     Ratio : {F(4, 1)}]] : n \in 0..MaxGears}

SteerCurves ==
    {s \in SeqsUpTo([Time : SteerTimes, Value : SteerValues], MaxSteerKeys) : IsCurve(s)}

\* the handler runs on the edited configuration c
Notify(c, PropertyName) ==
    /\ constructed
    /\ pre' = c
    /\ lastProperty' = PropertyName
    /\ LET after == PostEditChangeProperty(c, PropertyName) IN SetConfig(after)
    /\ UNCHANGED <<Def, constructed, PxSetup, PxBefore, PxPrev, divByZero, calls,
                   PxDiff, PxDiffBefore, PxDiffPrev, diffCalls, PxGears>>

EditDownRatio ==
    \E g \in 1..Len(TransmissionSetup.ForwardGears), v \in GearThresholds :
        Notify([Config EXCEPT !.TransmissionSetup.ForwardGears[g].DownRatio = v],
               "DownRatio")

EditUpRatio ==
    \E g \in 1..Len(TransmissionSetup.ForwardGears), v \in GearThresholds :
        Notify([Config EXCEPT !.TransmissionSetup.ForwardGears[g].UpRatio = v],
               "UpRatio")

\* a key of the steering curve gets another value
EditSteeringKey ==
    \E k \in 1..Len(SteeringCurve), v \in SteerValues :
        Notify([Config EXCEPT !.SteeringCurve[k].Value = v], "SteeringCurve")

\* a key is added to the steering curve
AddSteeringKey ==
    /\ Len(SteeringCurve) < MaxSteerKeys
    /\ \E t \in SteerTimes, v \in SteerValues :
        Notify([Config EXCEPT !.SteeringCurve = AddKey(@, t, v)], "SteeringCurve")

\* the gear array itself is edited, an entry added at the end or the last one
\* removed: the event names the array, for which the handler has no branch
EditForwardGears ==
    \/ /\ Len(TransmissionSetup.ForwardGears) < MaxGears
       /\ \E d \in GearThresholds, u \in GearThresholds :
            Notify([Config EXCEPT !.TransmissionSetup.ForwardGears =
                        Append(@, [DownRatio |-> d, UpRatio |-> u, Ratio |-> F(4, 1)])],
                   "ForwardGears")
    \/ /\ Len(TransmissionSetup.ForwardGears) > 0
       /\ Notify([Config EXCEPT !.TransmissionSetup.ForwardGears =
                      SubSeq(@, 1, Len(@) - 1)],
                 "ForwardGears")

\* an event that carries no property
EditNoProperty == Notify(Config, "None")

\* the PhysX blocks as the caller default-constructs them
FreshPxSetup ==
    [mMOI |-> PhysXDefaults.mMOI,
     mMaxOmega |-> PhysXDefaults.mMaxOmega,
     mDampingRateFullThrottle |-> PhysXDefaults.mDampingRateFullThrottle,
     mDampingRateZeroThrottleClutchEngaged |->
         PhysXDefaults.mDampingRateZeroThrottleClutchEngaged,
     mDampingRateZeroThrottleClutchDisengaged |->
         PhysXDefaults.mDampingRateZeroThrottleClutchDisengaged,
     mPeakTorque |-> PhysXDefaults.mPeakTorque,
     mTorqueCurve |-> PhysXDefaults.mTorqueCurve]

FreshPxDiff == [w \in 0..(PxWheels - 1) |-> FALSE]

\* the variables the translators write, before any call
NoCallsYet ==
    /\ PxSetup = FreshPxSetup /\ PxBefore = FreshPxSetup /\ PxPrev = FreshPxSetup
    /\ divByZero = FALSE /\ calls = 0
    /\ PxDiff = FreshPxDiff /\ PxDiffBefore = FreshPxDiff /\ PxDiffPrev = FreshPxDiff
    /\ diffCalls = 0
    /\ PxGears = [called |-> FALSE, Ratios |-> <<>>]

\* any forward-gear list and any steering curve, valid or not; the rest as constructed
Init ==
    /\ Def = PhysXDefaults
    /\ constructed = TRUE
    /\ \E gears \in GearLists, steer \in SteerCurves :
        /\ EngineSetup = Constructor(Def).EngineSetup
        /\ TransmissionSetup =
              [Constructor(Def).TransmissionSetup EXCEPT !.ForwardGears = gears]
        /\ SteeringCurve = steer
        /\ DifferentialSetup = Constructor(Def).DifferentialSetup
        /\ IdleBrakeInput = Constructor(Def).IdleBrakeInput
    /\ lastProperty = ""
    /\ pre = Config
    /\ NoCallsYet

Next ==
    \/ EditDownRatio
    \/ EditUpRatio
    \/ EditSteeringKey
    \/ AddSteeringKey
    \/ EditForwardGears
    \/ EditNoProperty

Spec == Init /\ [][Next]_vars

----------------------------------------------------------------------------
(* Properties of the editor pass, under Spec *)

GearInvariant(ForwardGears) ==
    \A g \in 1..Len(ForwardGears) : FLe(ForwardGears[g].DownRatio, ForwardGears[g].UpRatio)

InUnitRange(v) == FLe(Zero, v) /\ FLe(v, One)

SteeringInRange(Keys) == \A k \in 1..Len(Keys) : InUnitRange(Keys[k].Value)

\* everything of configuration c but the forward gears and the steering curve
Rest(c) ==
    [c EXCEPT !.TransmissionSetup.ForwardGears = <<>>, !.SteeringCurve = <<>>]

\* C1: right after a PostEditChangeProperty call for DownRatio or UpRatio, every
\* forward gear has DownRatio <= UpRatio, whatever the gear list was before.
C1_GearInvariantAfterRatioPass ==
    lastProperty \in {"DownRatio", "UpRatio"} =>
        GearInvariant(TransmissionSetup.ForwardGears)

\* C1, its case: DownRatio was edited to 0.9 on a gear with UpRatio 0.5 and the
\* pass left that gear with DownRatio 0.5.
C1_Witness ==
    /\ lastProperty = "DownRatio"
    /\ \E g \in 1..Len(TransmissionSetup.ForwardGears) :
        /\ pre.TransmissionSetup.ForwardGears[g].DownRatio = F(9, 10)
        /\ pre.TransmissionSetup.ForwardGears[g].UpRatio = F(1, 2)
        /\ TransmissionSetup.ForwardGears[g].DownRatio = F(1, 2)
        /\ TransmissionSetup.ForwardGears[g].UpRatio = F(1, 2)

\* C2: after a PostEditChangeProperty call for SteeringCurve the curve has as many
\* samples as before, at the same times, and every sample's value is the clamp to
\* [0,1] of the value it had before (so every value lies in [0,1]).
C2_SteeringScaleBound ==
    lastProperty = "SteeringCurve" =>
        /\ Len(SteeringCurve) = Len(pre.SteeringCurve)
        /\ {SteeringCurve[k].Time : k \in 1..Len(SteeringCurve)}
             = {pre.SteeringCurve[k].Time : k \in 1..Len(pre.SteeringCurve)}
        /\ \A k \in 1..Len(SteeringCurve) :
             /\ k <= Len(pre.SteeringCurve)
             /\ SteeringCurve[k].Value = FMathClamp(pre.SteeringCurve[k].Value, Zero, One)
             /\ InUnitRange(SteeringCurve[k].Value)

FirstAtItsTime(Keys, k) ==
    \A j \in 1..(k - 1) : ~IsNearlyEqual(Keys[j].Time, Keys[k].Time, KeyTimeTolerance)

C4_EditPassFrame ==
    LET Gears == TransmissionSetup.ForwardGears
        PreGears == pre.TransmissionSetup.ForwardGears
    IN
    /\ lastProperty # "" => Rest(Config) = Rest(pre)
    /\ lastProperty # "" => Len(Gears) = Len(PreGears)
    /\ lastProperty # "" => \A g \in 1..Len(Gears) : Gears[g].Ratio = PreGears[g].Ratio
    /\ lastProperty = "DownRatio" =>
          /\ SteeringCurve = pre.SteeringCurve
          /\ \A g \in 1..Len(Gears) :
                /\ Gears[g].UpRatio = PreGears[g].UpRatio
                /\ Gears[g].DownRatio # PreGears[g].DownRatio
                      => FLt(PreGears[g].UpRatio, PreGears[g].DownRatio)
    /\ lastProperty = "UpRatio" =>
          /\ SteeringCurve = pre.SteeringCurve
          /\ \A g \in 1..Len(Gears) :
                /\ Gears[g].DownRatio = PreGears[g].DownRatio
                /\ Gears[g].UpRatio # PreGears[g].UpRatio
                      => FLt(PreGears[g].UpRatio, PreGears[g].DownRatio)
    /\ lastProperty = "SteeringCurve" =>
          /\ Gears = PreGears
          /\ Len(SteeringCurve) = Len(pre.SteeringCurve)
          /\ \A k \in 1..Len(SteeringCurve) :
                /\ SteeringCurve[k].Time = pre.SteeringCurve[k].Time
                /\ SteeringCurve[k].Value # pre.SteeringCurve[k].Value
                      => ~InUnitRange(pre.SteeringCurve[k].Value)
    /\ lastProperty \in {"ForwardGears", "None"} => Config = pre

----------------------------------------------------------------------------
(* FVehicleNWEngineData::FindPeakTorque and GetVehicleEngineSetup *)

\* the loop of FindPeakTorque over the copy TorqueKeys, from KeyIdx on
RECURSIVE PeakTorqueLoop(_, _, _)
PeakTorqueLoop(PeakTorque, TorqueKeys, KeyIdx) ==
    IF KeyIdx >= Len(TorqueKeys) THEN PeakTorque
    ELSE PeakTorqueLoop(FMathMax(PeakTorque, TorqueKeys[KeyIdx + 1].Value),
                        TorqueKeys, KeyIdx + 1)

\* the peak taken over the samples the torque table has room for only
FindPeakTorqueEmitted(Setup) ==
    PeakTorqueLoop(Zero,
                   SubSeq(Setup.TorqueCurve, 1,
                          IF Len(Setup.TorqueCurve) <= eMAX_NB_ENGINE_TORQUE_CURVE_ENTRIES
                          THEN Len(Setup.TorqueCurve)
                          ELSE eMAX_NB_ENGINE_TORQUE_CURVE_ENTRIES),
                   0)

\* float PeakTorque = 0.0f; then the loop
FindPeakTorque(Setup) == PeakTorqueLoop(Zero, Setup.TorqueCurve, 0)

\* a clear that leaves the table as it is
clearNothing(Table) == Table

\* PxFixedSizeLookupTable::clear and addPair
clear(Table) == <<>>
addPair(Table, x, y) == Append(Table, Pair(x, y))

\* the loop with the speed ratio not clamped
RECURSIVE AddTorquePairsUnclamped(_, _, _, _, _, _)
AddTorquePairsUnclamped(acc, TorqueKeys, NumTorqueCurveKeys, MaxRPM, PeakTorque, KeyIdx) ==
    IF KeyIdx >= NumTorqueCurveKeys THEN acc
    ELSE LET K == TorqueKeys[KeyIdx + 1]
             x == FDiv(K.Time, MaxRPM)
             y == FDiv(K.Value, PeakTorque)
         IN  AddTorquePairsUnclamped(
                 [Table |-> addPair(acc.Table, x, y),
                  divByZero |-> acc.divByZero \/ MaxRPM.n = 0 \/ PeakTorque.n = 0],
                 TorqueKeys, NumTorqueCurveKeys, MaxRPM, PeakTorque, KeyIdx + 1)

\* the loop that stops at a zero divisor instead of dividing
RECURSIVE AddTorquePairsGuarded(_, _, _, _, _, _)
AddTorquePairsGuarded(acc, TorqueKeys, NumTorqueCurveKeys, MaxRPM, PeakTorque, KeyIdx) ==
    IF KeyIdx >= NumTorqueCurveKeys \/ MaxRPM.n = 0 \/ PeakTorque.n = 0 THEN acc
    ELSE LET K == TorqueKeys[KeyIdx + 1]
             x == FMathClamp(FDiv(K.Time, MaxRPM), Zero, One)
             y == FDiv(K.Value, PeakTorque)
         IN  AddTorquePairsGuarded(
                 [Table |-> addPair(acc.Table, x, y), divByZero |-> acc.divByZero],
                 TorqueKeys, NumTorqueCurveKeys, MaxRPM, PeakTorque, KeyIdx + 1)

\* the loop of GetVehicleEngineSetup from KeyIdx on; acc carries the table and
\* whether a division evaluated so far had a zero divisor
RECURSIVE AddTorquePairs(_, _, _, _, _, _)
AddTorquePairs(acc, TorqueKeys, NumTorqueCurveKeys, MaxRPM, PeakTorque, KeyIdx) ==
    IF KeyIdx >= NumTorqueCurveKeys THEN acc
    ELSE LET K == TorqueKeys[KeyIdx + 1]
             x == FMathClamp(FDiv(K.Time, MaxRPM), Zero, One)
             y == FDiv(K.Value, PeakTorque)
         IN  AddTorquePairs([Table |-> addPair(acc.Table, x, y),
                             divByZero |-> acc.divByZero \/ MaxRPM.n = 0 \/ PeakTorque.n = 0],
                            TorqueKeys, NumTorqueCurveKeys, MaxRPM, PeakTorque, KeyIdx + 1)

\* no truncation: the first argument whatever the second
MinIntFirst(a, b) == a

\* FMath::Min<int32>
MinInt(a, b) == IF a <= b THEN a ELSE b

\* GetVehicleEngineSetup(Setup, PxSetup) on a block holding PxIn: the block it
\* leaves, and whether it divided by zero on the way
GetVehicleEngineSetup(Setup, PxIn) ==
    LET PeakTorque == FindPeakTorque(Setup)
        TorqueKeys == Setup.TorqueCurve
        NumTorqueCurveKeys == MinInt(Len(TorqueKeys), eMAX_NB_ENGINE_TORQUE_CURVE_ENTRIES)
        loop == AddTorquePairs([Table |-> clear(PxIn.mTorqueCurve), divByZero |-> FALSE],
                               TorqueKeys, NumTorqueCurveKeys, Setup.MaxRPM, PeakTorque, 0)
    IN  [PxSetup |->
            [PxIn EXCEPT
                !.mMOI = M2ToCm2(Setup.MOI),
                !.mMaxOmega = RPMToOmega(Setup.MaxRPM),
                !.mDampingRateFullThrottle = M2ToCm2(Setup.DampingRateFullThrottle),
                !.mDampingRateZeroThrottleClutchEngaged =
                    M2ToCm2(Setup.DampingRateZeroThrottleClutchEngaged),
                !.mDampingRateZeroThrottleClutchDisengaged =
                    M2ToCm2(Setup.DampingRateZeroThrottleClutchDisengaged),
                !.mPeakTorque = M2ToCm2(PeakTorque),
                !.mTorqueCurve = loop.Table],
         divByZero |-> loop.divByZero]

\* a block some earlier use left behind: other numbers, a full torque table
StalePxSetup ==
    [mMOI |-> F(7, 1), mMaxOmega |-> F(7, 1), mDampingRateFullThrottle |-> F(7, 1),
     mDampingRateZeroThrottleClutchEngaged |-> F(7, 1),
     mDampingRateZeroThrottleClutchDisengaged |-> F(7, 1),
     mPeakTorque |-> F(7, 1),
     mTorqueCurve |-> [i \in 1..eMAX_NB_ENGINE_TORQUE_CURVE_ENTRIES |->
                          Pair(F(i, 10), F(1, 2))]]

\* the caller hands over the block it holds, a fresh one, or a stale one
GetVehicleEngineSetupCall ==
    /\ constructed
    /\ calls < MaxCalls
    /\ \E PxIn \in {PxSetup, FreshPxSetup, StalePxSetup} :
        LET r == GetVehicleEngineSetup(EngineSetup, PxIn)
        IN  /\ PxBefore' = PxIn
            /\ PxPrev' = PxSetup
            /\ PxSetup' = r.PxSetup
            /\ divByZero' = r.divByZero
    /\ calls' = calls + 1
    /\ UNCHANGED <<Def, constructed, EngineSetup, TransmissionSetup, SteeringCurve,
                   DifferentialSetup, IdleBrakeInput, lastProperty, pre,
                   PxDiff, PxDiffBefore, PxDiffPrev, diffCalls, PxGears>>

\* torque samples the engine curves of the model are drawn from: distinct times,
\* some below 0 and some above MaxRPM, torques below, at and above 0
TorqueSamples ==
    {Key(F(-1000, 1), F(-50, 1)), Key(F(0, 1), F(0, 1)), Key(F(1000, 1), F(-100, 1)),
     Key(F(2000, 1), F(0, 1)), Key(F(3000, 1), F(300, 1)), Key(F(4000, 1), F(200, 1)),
     Key(F(5000, 1), F(-20, 1)), Key(F(6000, 1), F(100, 1)), Key(F(7000, 1), F(50, 1)),
     Key(F(9000, 1), F(400, 1))}

MaxRPMs == {F(0, 1), F(6000, 1)}

\* the curve AddKey builds from a set of samples
RECURSIVE CurveOf(_)
CurveOf(S) ==
    IF S = {} THEN <<>>
    ELSE LET k == CHOOSE e \in S : TRUE
         IN  AddKey(CurveOf(S \ {k}), k.Time, k.Value)

TorqueCurves(MaxLen) ==
    {CurveOf(S) : S \in {T \in SUBSET TorqueSamples : Cardinality(T) <= MaxLen}}

\* any engine profile of the family, the rest as constructed
InitEngine ==
    /\ Def = PhysXDefaults
    /\ constructed = TRUE
    /\ \E rpm \in MaxRPMs, curve \in TorqueCurves(MaxTorqueKeys) :
        EngineSetup = [Constructor(Def).EngineSetup EXCEPT
                          !.MaxRPM = rpm, !.TorqueCurve = curve]
    /\ TransmissionSetup = Constructor(Def).TransmissionSetup
    /\ SteeringCurve = Constructor(Def).SteeringCurve
    /\ DifferentialSetup = Constructor(Def).DifferentialSetup
    /\ IdleBrakeInput = Constructor(Def).IdleBrakeInput
    /\ lastProperty = ""
    /\ pre = Config
    /\ NoCallsYet

NextEngine == GetVehicleEngineSetupCall

SpecEngine == InitEngine /\ [][NextEngine]_vars

----------------------------------------------------------------------------
(* Properties of the engine translator, under SpecEngine *)

Values(Keys) == {Keys[i].Value : i \in 1..Len(Keys)}

\* the largest of a non-empty set of finite floats
Largest(S) == CHOOSE v \in S : \A w \in S : FLe(w, v)

\* what GetVehicleEngineSetup is to emit for sample K of Setup
NormalizedImage(Setup, K) ==
    Pair(FMathClamp(FDiv(K.Time, Setup.MaxRPM), Zero, One),
         FDiv(K.Value, FindPeakTorque(Setup)))

\* C6: a call of GetVehicleEngineSetup leaves exactly min(n, capacity) samples in
\* the torque table, the images of the first min(n, capacity) samples of the
\* curve in their order, whatever the table held before.
C6_TruncationBoundary ==
    calls >= 1 =>
        LET n == Len(EngineSetup.TorqueCurve)
            out == PxSetup.mTorqueCurve
        IN  /\ Len(out) = (IF n <= eMAX_NB_ENGINE_TORQUE_CURVE_ENTRIES
                           THEN n ELSE eMAX_NB_ENGINE_TORQUE_CURVE_ENTRIES)
            /\ \A i \in 1..Len(out) :
                  /\ i <= n
                  /\ out[i] = NormalizedImage(EngineSetup, EngineSetup.TorqueCurve[i])

\* C6, its case: a curve of capacity + 1 samples translated into a block whose
\* table was full; capacity samples come out.
C6_Witness ==
    /\ calls >= 1
    /\ Len(EngineSetup.TorqueCurve) = eMAX_NB_ENGINE_TORQUE_CURVE_ENTRIES + 1
    /\ Len(PxBefore.mTorqueCurve) = eMAX_NB_ENGINE_TORQUE_CURVE_ENTRIES
    /\ Len(PxSetup.mTorqueCurve) = eMAX_NB_ENGINE_TORQUE_CURVE_ENTRIES

\* C7 as stated: FindPeakTorque is the maximum torque over all samples of the
\* curve, 0 for the empty curve, and that is the peak torque the translator uses.
C7_PeakIsMaximum ==
    LET peak == IF EngineSetup.TorqueCurve = <<>> THEN Zero
                ELSE Largest(Values(EngineSetup.TorqueCurve))
    IN  /\ FindPeakTorque(EngineSetup) = peak
        /\ calls >= 1 => PxSetup.mPeakTorque = M2ToCm2(peak)

\* C7 amended: FindPeakTorque is the largest of 0 and the torques of all samples
\* of the curve, those beyond the table's capacity included: 0 for an empty curve
\* and also for a curve whose torques are all negative.
C7_PeakIsMaximumOrZero ==
    LET peak == Largest(Values(EngineSetup.TorqueCurve) \cup {Zero})
    IN  /\ FindPeakTorque(EngineSetup) = peak
        /\ calls >= 1 => PxSetup.mPeakTorque = M2ToCm2(peak)

\* C7, its case: the peak sits in the one sample beyond the table's capacity
\* and the translated block carries it.
C7_Witness ==
    LET Keys == EngineSetup.TorqueCurve
    IN  /\ calls >= 1
        /\ Len(Keys) = eMAX_NB_ENGINE_TORQUE_CURVE_ENTRIES + 1
        /\ \A i \in 1..(Len(Keys) - 1) : FLt(Keys[i].Value, Keys[Len(Keys)].Value)
        /\ PxSetup.mPeakTorque = M2ToCm2(Keys[Len(Keys)].Value)

\* C8: with MaxRPM > 0 and a positive peak torque, every emitted sample is
\* (clamp(rpm / MaxRPM, 0, 1), torque / peak): x lies in [0,1], y is at most 1,
\* and a sample that carries the peak maps to exactly 1.
C8_TorqueNormalization ==
    LET Keys == EngineSetup.TorqueCurve
        out == PxSetup.mTorqueCurve
    IN  (/\ calls >= 1
         /\ FLt(Zero, EngineSetup.MaxRPM)
         /\ Keys # <<>>
         /\ FLt(Zero, Largest(Values(Keys) \cup {Zero})))
        => \A i \in 1..Len(out) :
              /\ i <= Len(Keys)
              /\ out[i].x = FMathClamp(FDiv(Keys[i].Time, EngineSetup.MaxRPM), Zero, One)
              /\ out[i].y = FDiv(Keys[i].Value, Largest(Values(Keys)))
              /\ InUnitRange(out[i].x)
              /\ FLe(out[i].y, One)
              /\ Keys[i].Value = Largest(Values(Keys)) => out[i].y = One

\* C8, its case: MaxRPM 6000 and samples (0,0), (3000,300), (6000,100) give peak
\* torque 300 and samples (0,0), (1/2,1), (1,1/3).
C8_Witness ==
    /\ calls >= 1
    /\ EngineSetup.MaxRPM = F(6000, 1)
    /\ EngineSetup.TorqueCurve = <<Key(F(0, 1), F(0, 1)), Key(F(3000, 1), F(300, 1)),
                                   Key(F(6000, 1), F(100, 1))>>
    /\ PxSetup.mPeakTorque = M2ToCm2(F(300, 1))
    /\ PxSetup.mTorqueCurve = <<Pair(F(0, 1), F(0, 1)), Pair(F(1, 2), F(1, 1)),
                                Pair(F(1, 1), F(1, 3))>>

\* C10: an empty curve gives no samples, peak torque 0 and no division; a
\* division by zero is evaluated exactly when a sample is emitted and the peak
\* torque or MaxRPM is 0, and the call still writes min(n, capacity) samples.
C10_DegenerateInput ==
    calls >= 1 =>
        LET n == Len(EngineSetup.TorqueCurve)
            out == PxSetup.mTorqueCurve
        IN  /\ n = 0 => (out = <<>> /\ PxSetup.mPeakTorque = Zero /\ ~divByZero)
            /\ divByZero <=>
                  (Len(out) >= 1 /\ (PxSetup.mPeakTorque = Zero \/ EngineSetup.MaxRPM = Zero))
            /\ Len(out) = (IF n <= eMAX_NB_ENGINE_TORQUE_CURVE_ENTRIES
                           THEN n ELSE eMAX_NB_ENGINE_TORQUE_CURVE_ENTRIES)

\* C10, its case: a curve of zero torques with MaxRPM > 0: the call divides 0 by
\* 0 for every sample and writes them all, each with a NaN torque.
C10_Witness ==
    /\ calls >= 1
    /\ divByZero
    /\ FLt(Zero, EngineSetup.MaxRPM)
    /\ Len(EngineSetup.TorqueCurve) >= 2
    /\ Len(PxSetup.mTorqueCurve) = Len(EngineSetup.TorqueCurve)
    /\ \A i \in 1..Len(PxSetup.mTorqueCurve) : IsNaN(PxSetup.mTorqueCurve[i].y)

----------------------------------------------------------------------------
(* GetVehicleDifferentialNWSetup *)

\* PxVehicleDifferentialNWData::setDrivenWheel: the flag of one wheel
setDrivenWheel(Px, wheelId, drivenState) == [Px EXCEPT ![wheelId] = drivenState]

\* the loop from wheel i on
RECURSIVE GetVehicleDifferentialNWSetupFrom(_, _, _)
GetVehicleDifferentialNWSetupFrom(Setup, Px, i) ==
    IF i >= Len(Setup) THEN Px
    ELSE GetVehicleDifferentialNWSetupFrom(
             Setup, setDrivenWheel(Px, i, Setup[i + 1].bDriven), i + 1)

\* GetVehicleDifferentialNWSetup(Setup, PxSetup) on a block holding PxIn
GetVehicleDifferentialNWSetup(Setup, PxIn) ==
    GetVehicleDifferentialNWSetupFrom(Setup, PxIn, 0)

StalePxDiff == [w \in 0..(PxWheels - 1) |-> TRUE]

\* the caller hands over the block it holds, a fresh one, or a stale one
GetVehicleDifferentialNWSetupCall ==
    /\ constructed
    /\ diffCalls < MaxCalls
    /\ \E PxIn \in {PxDiff, FreshPxDiff, StalePxDiff} :
        /\ PxDiffBefore' = PxIn
        /\ PxDiffPrev' = PxDiff
        /\ PxDiff' = GetVehicleDifferentialNWSetup(DifferentialSetup, PxIn)
    /\ diffCalls' = diffCalls + 1
    /\ UNCHANGED <<Def, constructed, EngineSetup, TransmissionSetup, SteeringCurve,
                   DifferentialSetup, IdleBrakeInput, lastProperty, pre,
                   PxSetup, PxBefore, PxPrev, divByZero, calls, PxGears>>

\* differential entries for NbrWheels wheels or one fewer: none, the first two
\* or all of them driven
DifferentialSetups ==
    {[w \in 1..n |-> [bDriven |-> w \in D]] :
        n \in {NbrWheels - 1, NbrWheels}, D \in {{}, {1, 2}, 1..NbrWheels}}

\* any short engine curve and any differential of the family, the rest as constructed
InitTranslate ==
    /\ Def = PhysXDefaults
    /\ constructed = TRUE
    /\ \E rpm \in MaxRPMs, curve \in TorqueCurves(1) :
        EngineSetup = [Constructor(Def).EngineSetup EXCEPT
                          !.MaxRPM = rpm, !.TorqueCurve = curve]
    /\ TransmissionSetup = Constructor(Def).TransmissionSetup
    /\ SteeringCurve = Constructor(Def).SteeringCurve
    /\ DifferentialSetup \in DifferentialSetups
    /\ IdleBrakeInput = Constructor(Def).IdleBrakeInput
    /\ lastProperty = ""
    /\ pre = Config
    /\ NoCallsYet

NextTranslate ==
    \/ GetVehicleEngineSetupCall
    \/ GetVehicleDifferentialNWSetupCall

SpecTranslate == InitTranslate /\ [][NextTranslate]_vars

\* C9 as stated: the translators leave the configuration as it was, and a second
\* call gives exactly the output of the first, whatever the blocks held before.
C9_Purity ==
    /\ Config = pre
    /\ calls >= 2 => PxSetup = PxPrev
    /\ diffCalls >= 2 => PxDiff = PxDiffPrev

\* C9 amended: the translators leave the configuration as it was; a second call
\* of GetVehicleEngineSetup gives exactly the block of the first, whatever the
\* block held before; GetVehicleDifferentialNWSetup sets the driven flag of the
\* wheels below Setup.Num() from the configuration and leaves the flags of the
\* other wheels as the block held them, so two calls agree on the wheels below
\* Setup.Num().
C9_PurityUpToUnwrittenWheels ==
    /\ Config = pre
    /\ calls >= 2 => PxSetup = PxPrev
    /\ diffCalls >= 1 =>
          \A w \in DOMAIN PxDiff :
              PxDiff[w] = IF w < Len(DifferentialSetup)
                          THEN DifferentialSetup[w + 1].bDriven
                          ELSE PxDiffBefore[w]
    /\ diffCalls >= 2 =>
          \A w \in DOMAIN PxDiff : w < Len(DifferentialSetup) => PxDiff[w] = PxDiffPrev[w]

\* C9, its case: both translators were called twice, the second time on stale
\* blocks; the engine blocks are equal, the differential blocks differ.
C9_Witness ==
    /\ calls = 2 /\ PxBefore = StalePxSetup /\ PxSetup = PxPrev
    /\ EngineSetup.TorqueCurve # <<>>
    /\ diffCalls = 2 /\ PxDiffBefore = StalePxDiff /\ PxDiff # PxDiffPrev
    /\ Len(DifferentialSetup) = NbrWheels

----------------------------------------------------------------------------
(* Seeding from the simulator defaults and translating back, under SpecSeed *)

\* GetVehicleGearSetup: the forward gear ratios in index order, unchanged
GetVehicleGearSetup(Setup) ==
    [called |-> TRUE,
     Ratios |-> [g \in 1..Len(Setup.ForwardGears) |-> Setup.ForwardGears[g].Ratio]]

GetVehicleGearSetupCall ==
    /\ constructed
    /\ ~PxGears.called
    /\ PxGears' = GetVehicleGearSetup(TransmissionSetup)
    /\ UNCHANGED <<Def, constructed, EngineSetup, TransmissionSetup, SteeringCurve,
                   DifferentialSetup, IdleBrakeInput, lastProperty, pre,
                   PxSetup, PxBefore, PxPrev, divByZero, calls,
                   PxDiff, PxDiffBefore, PxDiffPrev, diffCalls>>

\* the constructor runs on the members as they are default-initialized
Construct ==
    /\ ~constructed
    /\ constructed' = TRUE
    /\ SetConfig(Constructor(Def))
    /\ UNCHANGED <<Def, lastProperty, pre, PxSetup, PxBefore, PxPrev, divByZero, calls,
                   PxDiff, PxDiffBefore, PxDiffPrev, diffCalls, PxGears>>

\* normalized torque pairs a default block's curve is drawn from
DefaultPairs ==
    {Pair(F(0, 1), F(8, 10)), Pair(F(33, 100), F(1, 1)), Pair(F(1, 2), F(1, 2)),
     Pair(F(1, 1), F(8, 10))}

\* lookup tables of up to MaxDefKeys pairs, speeds strictly increasing in [0,1]
DefaultCurves ==
    {c \in SeqsUpTo(DefaultPairs, MaxDefKeys) :
        \A i \in 1..(Len(c) - 1) : FLt(c[i].x, c[i + 1].x)}

\* valid default blocks: PhysX's own, and others in max speed, peak torque,
\* torque curve and number of ratios
DefaultBlocks ==
    {[PhysXDefaults EXCEPT !.mMaxOmega = w, !.mPeakTorque = p, !.mTorqueCurve = c,
                           !.mNbRatios = nb] :
        w \in {F(600, 1), F(1000, 1)}, p \in {F(500, 1), F(250, 1)},
        c \in DefaultCurves,
        nb \in {eFIRST, PhysXDefaults.mNbRatios}}

InitSeed ==
    /\ Def \in DefaultBlocks
    /\ constructed = FALSE
    /\ EngineSetup = Unconstructed.EngineSetup
    /\ TransmissionSetup = Unconstructed.TransmissionSetup
    /\ SteeringCurve = Unconstructed.SteeringCurve
    /\ DifferentialSetup = Unconstructed.DifferentialSetup
    /\ IdleBrakeInput = Unconstructed.IdleBrakeInput
    /\ lastProperty = ""
    /\ pre = Config
    /\ NoCallsYet

NextSeed ==
    \/ Construct
    \/ GetVehicleEngineSetupCall
    \/ GetVehicleGearSetupCall

SpecSeed == InitSeed /\ [][NextSeed]_vars

\* the forward ratios of a default block, first gear first
DefaultForwardRatios(D) ==
    [g \in 1..(IF D.mNbRatios > eFIRST THEN D.mNbRatios - eFIRST ELSE 0) |->
        D.mRatios[eFIRST + g - 1]]

\* C5 as stated: for any default block, constructing and translating back gives
\* the block's normalized torque curve sample for sample, and its forward ratios.
C5_RoundTrip ==
    /\ calls >= 1 => PxSetup.mTorqueCurve = Def.mTorqueCurve
    /\ PxGears.called => PxGears.Ratios = DefaultForwardRatios(Def)

\* the largest normalized torque of a default block's curve
LargestY(D) == Largest({D.mTorqueCurve[i].y : i \in 1..Len(D.mTorqueCurve)})

\* C5 amended: for any valid default block (positive max speed and peak torque,
\* speeds strictly increasing within [0,1]), constructing and translating back
\* gives the default forward ratios and a torque curve with the default speeds
\* and each default torque divided by the largest default torque of the curve:
\* the default curve sample for sample when that curve is empty or its largest
\* torque is exactly 1.
C5_RoundTripOfNormalizedDefaults ==
    /\ calls >= 1 =>
          /\ Len(PxSetup.mTorqueCurve) = Len(Def.mTorqueCurve)
          /\ \A i \in 1..Len(Def.mTorqueCurve) :
                /\ PxSetup.mTorqueCurve[i].x = Def.mTorqueCurve[i].x
                /\ PxSetup.mTorqueCurve[i].y = FDiv(Def.mTorqueCurve[i].y, LargestY(Def))
          /\ (Def.mTorqueCurve = <<>> \/ LargestY(Def) = One)
                => PxSetup.mTorqueCurve = Def.mTorqueCurve
    /\ PxGears.called => PxGears.Ratios = DefaultForwardRatios(Def)

\* C5, its case: PhysX's own defaults, constructed and translated back.
C5_Witness ==
    /\ Def = PhysXDefaults
    /\ constructed
    /\ EngineSetup.TorqueCurve =
          <<Key(F(0, 1), F(400, 1)),
            Key(FMul(F(33, 100), EngineSetup.MaxRPM), F(500, 1)),
            Key(EngineSetup.MaxRPM, F(400, 1))>>
    /\ calls >= 1
    /\ PxSetup.mTorqueCurve = PhysXDefaults.mTorqueCurve
    /\ PxGears.called
    /\ PxGears.Ratios = <<F(4, 1), F(2, 1), F(3, 2), F(11, 10), F(1, 1)>>

====
